---- MODULE Spec2Model ----
(***************************************************************************)
(* Model of MaterialTextProcessor (src/main.py): the hybrid extraction     *)
(* engine that turns one raw material description into a structured        *)
(* record, and the batch loop process_materials around it.                 *)
(*                                                                         *)
(* A Python str is a sequence of one-character strings.  A JSON value of   *)
(* the service reply is a record [ty, s]: ty = "str" carries the text s,   *)
(* "null" is JSON null, "num" a JSON number and "absent" a missing key.    *)
(***************************************************************************)
EXTENDS Integers, Sequences, FiniteSets, TLC

(***************************************************************************)
(* Bounds of the model and constants of the program.                       *)
(***************************************************************************)
MaxRows == 2

MaxTextLen == 5

MaxSegments == 3

max_len == 40

max_retries == 3

retry_delay == 2

(***************************************************************************)
(* Python str primitives, on sequences of characters.                      *)
(***************************************************************************)
RECURSIVE Rep(_, _)
Rep(c, n) == IF n = 0 THEN <<>> ELSE <<c>> \o Rep(c, n - 1)

Min(a, b) == IF a < b THEN a ELSE b

IsSpace(c) == c \in {" ", "\t"}

\* s[:n] for n >= 0
Take(s, n) == SubSeq(s, 1, Min(n, Len(s)))

\* s[n:] for n >= 0
Drop(s, n) == SubSeq(s, n + 1, Len(s))

RECURSIVE lstrip(_)
lstrip(s) ==
    IF s # <<>> /\ IsSpace(Head(s)) THEN lstrip(Tail(s)) ELSE s

RECURSIVE rstrip(_)
rstrip(s) ==
    IF s # <<>> /\ IsSpace(s[Len(s)]) THEN rstrip(SubSeq(s, 1, Len(s) - 1)) ELSE s

strip(s) == rstrip(lstrip(s))

\* str.lower() on the alphabet of the model
lower_char(c) ==
    CASE c = "F" -> "f"
      [] c = "S" -> "s"
      [] c = "R" -> "r"
      [] c = "Ü" -> "ü"
      [] c = "D" -> "d"
      [] c = "L" -> "l"
      [] OTHER -> c

\* a variant of lower that leaves the text as it is
RECURSIVE lower_forgotten(_)
lower_forgotten(s) == IF s = <<>> THEN <<>> ELSE <<Head(s)>> \o lower_forgotten(Tail(s))

RECURSIVE lower(_)
lower(s) == IF s = <<>> THEN <<>> ELSE <<lower_char(Head(s))>> \o lower(Tail(s))

startswith(s, p) == Len(s) >= Len(p) /\ SubSeq(s, 1, Len(p)) = p

\* p in s
contains(s, p) ==
    \E i \in 0..(Len(s) - Len(p)) : SubSeq(s, i + 1, i + Len(p)) = p

\* index (1-based) of the first element of s satisfying the test, Len(s)+1 if none
FirstSep(s, sep) ==
    IF \E i \in 1..Len(s) : s[i] = sep
    THEN CHOOSE i \in 1..Len(s) : s[i] = sep /\ \A j \in 1..(i - 1) : s[j] # sep
    ELSE Len(s) + 1

FirstSpace(s) ==
    IF \E i \in 1..Len(s) : IsSpace(s[i])
    THEN CHOOSE i \in 1..Len(s) : IsSpace(s[i]) /\ \A j \in 1..(i - 1) : ~IsSpace(s[j])
    ELSE Len(s) + 1

FirstNonSpace(s) ==
    IF \E i \in 1..Len(s) : ~IsSpace(s[i])
    THEN CHOOSE i \in 1..Len(s) : ~IsSpace(s[i]) /\ \A j \in 1..(i - 1) : IsSpace(s[j])
    ELSE Len(s) + 1

\* s.split(sep) for a one-character sep: empty pieces are kept
RECURSIVE split_sep(_, _)
split_sep(s, sep) ==
    LET i == FirstSep(s, sep)
    IN  IF i > Len(s) THEN <<s>>
        ELSE <<SubSeq(s, 1, i - 1)>> \o split_sep(Drop(s, i), sep)

\* s.split(): split on whitespace runs, no empty pieces
RECURSIVE split_ws(_)
split_ws(s) ==
    LET t == lstrip(s)
        i == FirstSpace(t)
    IN  IF t = <<>> THEN <<>>
        ELSE <<SubSeq(t, 1, i - 1)>> \o split_ws(Drop(t, i - 1))

\* sep.join(parts)
RECURSIVE join(_, _)
join(parts, sep) ==
    IF parts = <<>> THEN <<>>
    ELSE IF Len(parts) = 1 THEN parts[1]
    ELSE parts[1] \o sep \o join(Tail(parts), sep)

\* s.replace("//", " | "): leftmost, non-overlapping
RECURSIVE replace_slashes(_)
replace_slashes(s) ==
    IF Len(s) < 2 THEN s
    ELSE IF s[1] = "/" /\ s[2] = "/"
         THEN <<" ", "|", " ">> \o replace_slashes(Drop(s, 2))
         ELSE <<s[1]>> \o replace_slashes(Tail(s))

\* re.sub(r'\s+\|\s+', ' | ', s)
RECURSIVE sub_separators(_)
sub_separators(s) ==
    IF s = <<>> THEN <<>>
    ELSE IF ~IsSpace(s[1]) THEN <<s[1]>> \o sub_separators(Tail(s))
    ELSE LET j    == FirstNonSpace(s)
             rest == Drop(s, j)
             k    == FirstNonSpace(rest)
         IN  IF j <= Len(s) /\ s[j] = "|" /\ rest # <<>> /\ IsSpace(rest[1])
             THEN <<" ", "|", " ">> \o sub_separators(Drop(rest, k - 1))
             ELSE SubSeq(s, 1, j - 1) \o sub_separators(Drop(s, j - 1))

\* re.sub(r'\s+', ' ', s)
RECURSIVE sub_spaces(_)
sub_spaces(s) ==
    IF s = <<>> THEN <<>>
    ELSE IF IsSpace(s[1])
         THEN <<" ">> \o sub_spaces(Drop(s, FirstNonSpace(s) - 1))
         ELSE <<s[1]>> \o sub_spaces(Tail(s))

\* a variant of _preprocess_text that returns the text without the final strip
_preprocess_text_unstripped(text) ==
    sub_spaces(sub_separators(replace_slashes(join(split_ws(text), <<" ">>))))

(***************************************************************************)
(* Normalizer.  process_materials always passes str(...), so the           *)
(* non-string branch is not reachable from the batch loop.                 *)
(***************************************************************************)
_preprocess_text(text) ==
    LET t1 == join(split_ws(text), <<" ">>)
        t2 == replace_slashes(t1)
        t3 == sub_separators(t2)
        t4 == sub_spaces(t3)
    IN  strip(t4)

(***************************************************************************)
(* Values of a ProductInfo dict.                                           *)
(***************************************************************************)
Str(s) == [ty |-> "str", s |-> s]

Null == [ty |-> "null", s |-> <<>>]

Num == [ty |-> "num", s |-> <<>>]

Absent == [ty |-> "absent", s |-> <<>>]

List(items) == [ty |-> "list", items |-> items]

AbsentList == [ty |-> "absent", items |-> <<>>]

\* the dict {} : no key at all
EmptyDict ==
    [product_name      |-> Absent,
     characteristics   |-> AbsentList,
     material_type     |-> "<absent>",
     unit_of_measure   |-> "<absent>",
     categorization    |-> "<absent>",
     short_description |-> Absent]

fuer == <<"f", "ü", "r", " ">>

\* parts = [p.strip() for p in text.split('|') if p.strip()]
RECURSIVE StripNonEmpty(_)
StripNonEmpty(ps) ==
    IF ps = <<>> THEN <<>>
    ELSE IF strip(Head(ps)) # <<>>
         THEN <<strip(Head(ps))>> \o StripNonEmpty(Tail(ps))
         ELSE StripNonEmpty(Tail(ps))

Parts(text) == StripNonEmpty(split_sep(text, "|"))

(***************************************************************************)
(* _create_fallback_info                                                   *)
(***************************************************************************)
_create_fallback_info(text) ==
    LET parts == Parts(text)
        name  == IF startswith(lower(parts[1]), fuer)
                 THEN strip(Drop(parts[1], 4))
                 ELSE parts[1]
        short_desc ==
            IF Len(parts) > 1 /\ Len(name) + Len(parts[2]) + 1 <= max_len
            THEN name \o <<" ">> \o parts[2]
            ELSE name
    IN  IF parts = <<>>
        THEN [product_name      |-> Str(<<>>),
              characteristics   |-> List(<<>>),
              material_type     |-> "other",
              unit_of_measure   |-> "ST",
              categorization    |-> "{}",
              short_description |-> Str(<<>>)]
        ELSE [product_name      |-> Str(name),
              characteristics   |-> List(IF Len(parts) > 1 THEN Tail(parts) ELSE <<>>),
              material_type     |-> "other",
              unit_of_measure   |-> "ST",
              categorization    |-> "{}",
              short_description |-> Str(Take(short_desc, max_len))]

(***************************************************************************)
(* _simple_extraction                                                      *)
(***************************************************************************)
type_keywords ==
    << [type_name |-> "filter",
        keywords  |-> << <<"f","i","l","t","e","r">>,
                         <<"w","a","s","s","e","r","f","i","l","t","e","r">> >>],
       [type_name |-> "electrical",
        keywords  |-> << <<"s","c","h","ü","t","z">>,
                         <<"r","e","l","a","i","s">>,
                         <<"s","p","a","n","n","u","n","g">>,
                         <<"l","e","i","s","t","u","n","g">> >>],
       [type_name |-> "mechanical",
        keywords  |-> << <<"l","a","g","e","r">>,
                         <<"w","e","l","l","e">>,
                         <<"r","i","n","g">>,
                         <<"b","u","c","h","s","e">> >>],
       [type_name |-> "seal",
        keywords  |-> << <<"d","i","c","h","t">>,
                         <<"d","i","c","h","t","u","n","g">> >> ] >>

\* any(kw in text.lower() for kw in keywords), lowered being text.lower()
TypeMatches(lowered, i) ==
    \E k \in 1..Len(type_keywords[i].keywords) :
        contains(lowered, type_keywords[i].keywords[k])

\* a variant of material_type_of that lets a later entry of the table win
material_type_of_last_match(text) ==
    LET lowered == lower(text)
    IN  IF \E i \in 1..Len(type_keywords) : TypeMatches(lowered, i)
        THEN type_keywords[CHOOSE i \in 1..Len(type_keywords) :
                               /\ TypeMatches(lowered, i)
                               /\ \A j \in (i + 1)..Len(type_keywords) :
                                      ~TypeMatches(lowered, j)].type_name
        ELSE "other"

\* lines 120-131: the first entry of the table with a matching keyword
material_type_of(text) ==
    LET lowered == lower(text)
    IN  IF \E i \in 1..Len(type_keywords) : TypeMatches(lowered, i)
        THEN type_keywords[CHOOSE i \in 1..Len(type_keywords) :
                               /\ TypeMatches(lowered, i)
                               /\ \A j \in 1..(i - 1) : ~TypeMatches(lowered, j)].type_name
        ELSE "other"

\* lines 133-146: the short description of the heuristic extractor
simple_short_desc(product_name, characteristics) ==
    LET remaining_space == max_len - Len(product_name) - 1
        short_desc ==
            IF characteristics = <<>> THEN product_name
            ELSE IF Len(product_name) + 1 + Len(characteristics[1]) <= max_len
                 THEN product_name \o <<" ">> \o characteristics[1]
                 ELSE IF remaining_space > 3
                      THEN product_name \o <<" ">> \o Take(characteristics[1], remaining_space)
                      ELSE product_name
    IN  Take(short_desc, max_len)

_simple_extraction(text) ==
    LET parts == Parts(text)
        product_name ==
            IF startswith(lower(parts[1]), fuer)
            THEN strip(Drop(parts[1], 4))
            ELSE parts[1]
        characteristics == IF Len(parts) > 1 THEN Tail(parts) ELSE <<>>
    IN  IF parts = <<>>
        THEN _create_fallback_info(text)
        ELSE [product_name      |-> Str(product_name),
              characteristics   |-> List(characteristics),
              material_type     |-> material_type_of(text),
              unit_of_measure   |-> "ST",
              categorization    |-> "{}",
              short_description |->
                  Str(simple_short_desc(product_name, characteristics))]

(***************************************************************************)
(* _create_standardized_description.  The result is [ok, desc, error]:     *)
(* ok = FALSE when the Python code raises (KeyError on a missing key,      *)
(* TypeError on len() or a slice of a value that is no text), and error    *)
(* is then str(e).                                                         *)
(***************************************************************************)
Returns(desc) == [ok |-> TRUE, desc |-> desc, error |-> ""]

Raises(msg) == [ok |-> FALSE, desc |-> <<>>, error |-> msg]

\* a variant of truncate that forgets the final cut
truncate_forgotten(desc) == desc

\* line 276: desc[:40]
truncate(desc) == Take(desc, max_len)

\* lines 263-276: the reconstruction from product_name and characteristics
fallback_construction(info) ==
    LET name == info["product_name"]
        cs   == info["characteristics"]
        desc == name.s
        char == cs.items[1]
        space_left == max_len - Len(desc) - 1
    IN  IF name.ty = "absent" THEN Raises("'product_name'")
        ELSE IF cs.ty = "absent" THEN Raises("'characteristics'")
        ELSE IF cs.items = <<>>
             THEN IF name.ty = "str" THEN Returns(truncate(desc))
                  ELSE Raises("object is not subscriptable")
        ELSE IF name.ty # "str" THEN Raises("object has no len()")
        ELSE IF Len(desc) + 1 + Len(char) <= max_len
             THEN Returns(truncate(desc \o <<" ">> \o char))
        ELSE IF space_left >= 3
             THEN Returns(truncate(desc \o <<" ">> \o Take(char, space_left)))
        ELSE Returns(truncate(desc))

\* a variant of _create_standardized_description without the length test
_create_standardized_description_unchecked(info) ==
    LET sd == info["short_description"]
    IN  IF sd.ty = "num" THEN Raises("object has no len()")
        ELSE IF sd.ty = "str" /\ sd.s # <<>> THEN Returns(sd.s)
        ELSE fallback_construction(info)

_create_standardized_description(info) ==
    LET sd == info["short_description"]
    IN  IF sd.ty = "num" THEN Raises("object has no len()")
        ELSE IF sd.ty = "str" /\ sd.s # <<>> /\ Len(sd.s) <= max_len
             THEN Returns(sd.s)
        ELSE fallback_construction(info)

(***************************************************************************)
(* The reply of the text-generation service.  The content of a message is  *)
(* a sequence of tokens: "{" (lb), "}" (rb), whitespace (ws), other prose   *)
(* (txt) and the members of one JSON object (obj, its value in v).         *)
(***************************************************************************)
Tok(k) == [k |-> k, v |-> EmptyDict]

Obj(d) == [k |-> "obj", v |-> d]

\* content.strip()
RECURSIVE lstrip_tokens(_)
lstrip_tokens(c) ==
    IF c # <<>> /\ Head(c).k = "ws" THEN lstrip_tokens(Tail(c)) ELSE c

RECURSIVE rstrip_tokens(_)
rstrip_tokens(c) ==
    IF c # <<>> /\ c[Len(c)].k = "ws"
    THEN rstrip_tokens(SubSeq(c, 1, Len(c) - 1))
    ELSE c

\* content.find('{'): 0-based, -1 when there is none
find_lb(c) ==
    IF \E i \in 1..Len(c) : c[i].k = "lb"
    THEN (CHOOSE i \in 1..Len(c) :
              c[i].k = "lb" /\ \A j \in 1..(i - 1) : c[j].k # "lb") - 1
    ELSE -1

\* content.rfind('}'): 0-based, -1 when there is none
rfind_rb(c) ==
    IF \E i \in 1..Len(c) : c[i].k = "rb"
    THEN (CHOOSE i \in 1..Len(c) :
              c[i].k = "rb" /\ \A j \in (i + 1)..Len(c) : c[j].k # "rb") - 1
    ELSE -1

\* json.loads succeeds exactly on the text of one JSON object
json_loads_ok(json_str) ==
    /\ Len(json_str) = 3
    /\ json_str[1].k = "lb"
    /\ json_str[2].k = "obj"
    /\ json_str[3].k = "rb"

(***************************************************************************)
(* _parse_llm_response.  message is [none, content]: none = TRUE is a      *)
(* message whose content is None.  The result is [ok, value, error].       *)
(***************************************************************************)
_parse_llm_response(message) ==
    LET content  == rstrip_tokens(lstrip_tokens(message.content))
        start    == find_lb(content)
        end      == rfind_rb(content) + 1
        json_str == SubSeq(content, start + 1, end)
    IN  IF message.none
        THEN [ok |-> FALSE, value |-> EmptyDict, error |-> "AttributeError"]
        ELSE IF start < 0 \/ end <= 0
        THEN [ok |-> FALSE, value |-> EmptyDict, error |-> "No JSON found in response"]
        ELSE IF ~json_loads_ok(json_str)
        THEN [ok |-> FALSE, value |-> EmptyDict, error |-> "JSONDecodeError"]
        ELSE [ok |-> TRUE, value |-> json_str[2].v, error |-> ""]

(***************************************************************************)
(* Inputs of the model: the texts of column 3 and the replies of the       *)
(* service.                                                                *)
(***************************************************************************)
BlankText == <<" ", "\t">>

\* "Siemens  Schütz//230V"
SiemensText ==
    <<"S","i","e","m","e","n","s"," "," ","S","c","h","ü","t","z","/","/","2","3","0","V">>

\* a 36-character two-word name and a 5-character characteristic
Long36Text ==
    Rep("a", 17) \o <<" ">> \o Rep("b", 18) \o <<" ","|"," ","1","2","3","4","5">>

\* "Für " + a 45-character word + " | Ref"
FuerLongText ==
    <<"F","ü","r"," ">> \o Rep("c", 45) \o <<" ","|"," ","R","e","f">>

PipeText == <<"|">>

Texts == {BlankText, SiemensText, Long36Text, FuerLongText, PipeText}

GoodReply ==
    [product_name      |-> Str(<<"P","u","m","p","e"," ","K","S","B">>),
     characteristics   |-> List(<< <<"2","3","0","V">> >>),
     material_type     |-> "mechanical",
     unit_of_measure   |-> "ST",
     categorization    |-> "{Spannung (V): 230}",
     short_description |-> Str(<<"P","u","m","p","e"," ","2","3","0","V">>)]

\* a short_description of 41 characters and a name of 45
LongReply ==
    [product_name      |-> Str(Rep("n", 45)),
     characteristics   |-> List(<<>>),
     material_type     |-> "other",
     unit_of_measure   |-> "ST",
     categorization    |-> "{}",
     short_description |-> Str(Rep("d", 41))]

Replies == {GoodReply, LongReply, EmptyDict}

NoContent == [none |-> TRUE, content |-> <<>>]

Content(c) == [none |-> FALSE, content |-> c]

Messages ==
    {NoContent,
     Content(<<>>),
     Content(<<Tok("txt"), Tok("rb")>>),
     Content(<<Tok("lb"), Tok("txt")>>),
     Content(<<Tok("rb"), Tok("lb")>>),
     Content(<<Tok("lb"), Tok("txt"), Tok("rb")>>),
     Content(<<Tok("lb"), Obj(GoodReply), Tok("rb"), Tok("lb"), Obj(GoodReply), Tok("rb")>>),
     Content(<<Tok("ws"), Tok("txt"), Tok("lb"), Obj(GoodReply), Tok("rb"), Tok("txt"), Tok("ws")>>)}
    \cup {Content(<<Tok("lb"), Obj(d), Tok("rb")>>) : d \in Replies}

RECURSIVE SeqsUpTo(_, _)
SeqsUpTo(S, n) ==
    IF n = 0 THEN {<<>>}
    ELSE LET shorter == SeqsUpTo(S, n - 1)
         IN  shorter \cup {Append(q, e) : q \in shorter, e \in S}

(***************************************************************************)
(* State.  rows is the table read by __init__; idx, attempt and pc are the *)
(* position of process_materials and of the retry loop; h is the log of    *)
(* the row being processed (or last processed).  call and ret are used     *)
(* when one method is called on its own: the method with its argument, and *)
(* the values it returned.                                                 *)
(***************************************************************************)
VARIABLES rows, idx, pc, attempt, answer_list, llm_calls, llm_errors, llm_fallbacks, h,
          call, ret

vars == <<rows, idx, pc, attempt, answer_list, llm_calls, llm_errors, llm_fallbacks, h,
          call, ret>>

NoCall == [fn |-> "none", text |-> <<>>, info |-> EmptyDict]

ERROR == <<"E","R","R","O","R">>

NoLog ==
    [row |-> 0, path |-> "none", outcomes |-> <<>>, sleeps |-> <<>>,
     calls0 |-> 0, errors0 |-> 0, fallbacks0 |-> 0]

StartLog(path) ==
    [row |-> idx, path |-> path, outcomes |-> <<>>, sleeps |-> <<>>,
     calls0 |-> llm_calls, errors0 |-> llm_errors, fallbacks0 |-> llm_fallbacks]

Init ==
    /\ rows \in SeqsUpTo(Texts, MaxRows)
    /\ idx = 1
    /\ pc = "row"
    /\ attempt = 0
    /\ answer_list = <<>>
    /\ llm_calls = 0
    /\ llm_errors = 0
    /\ llm_fallbacks = 0
    /\ h = NoLog
    /\ call = NoCall
    /\ ret = <<>>

(***************************************************************************)
(* process_materials: the body of the row loop.                            *)
(***************************************************************************)
\* lines 302-307
result_record(text, cleaned_text, product_info, final_description) ==
    [original_text     |-> text,
     cleaned_text      |-> cleaned_text,
     has_info          |-> TRUE,
     structured_info   |-> product_info,
     has_error         |-> FALSE,
     error             |-> "",
     final_description |-> final_description]

\* a variant of error_record that keeps the normalized text as the description
error_record_keeps_text(text, cleaned_text, e) ==
    [original_text     |-> text,
     cleaned_text      |-> cleaned_text,
     has_info          |-> FALSE,
     structured_info   |-> EmptyDict,
     has_error         |-> TRUE,
     error             |-> e,
     final_description |-> cleaned_text]

\* lines 323-328
error_record(text, cleaned_text, e) ==
    [original_text     |-> text,
     cleaned_text      |-> cleaned_text,
     has_info          |-> FALSE,
     structured_info   |-> EmptyDict,
     has_error         |-> TRUE,
     error             |-> e,
     final_description |-> ERROR]

\* a variant of append_record that inserts at the front
prepend_record(list, rec) == <<rec>> \o list

\* line 302 / line 323: self.answer_list.append(...)
append_record(list, rec) == Append(list, rec)

\* the loop goes on with the next row, also after the except clause
next_idx(i) == i + 1

\* lines 298-328: from the value of _extract_with_fallback to the end of the row
StoreRow(cleaned_text, product_info) ==
    LET text == rows[idx]
        d    == _create_standardized_description(product_info)
    IN  /\ answer_list' =
              IF d.ok
              THEN append_record(answer_list,
                       result_record(text, cleaned_text, product_info, d.desc))
              ELSE append_record(answer_list,
                       error_record(text, cleaned_text, d.error))
        /\ idx' = next_idx(idx)
        /\ pc' = "row"

\* a variant of needs_llm that escalates only when both conditions hold
needs_llm_both(result) ==
    /\ Len(result["characteristics"].items) = 0
    /\ Len(split_ws(result["product_name"].s)) = 1

\* lines 210-211
needs_llm(result) ==
    \/ Len(result["characteristics"].items) = 0
    \/ Len(split_ws(result["product_name"].s)) = 1

\* lines 290-293: the normalized text is empty, the row is skipped
EmptyText ==
    /\ pc = "row"
    /\ idx <= Len(rows)
    /\ _preprocess_text(rows[idx]) = <<>>
    /\ idx' = next_idx(idx)
    /\ h' = StartLog("skip")
    /\ UNCHANGED <<rows, pc, attempt, answer_list, llm_calls, llm_errors, llm_fallbacks>>
    /\ UNCHANGED <<call, ret>>

\* lines 296-307 with _extract_with_fallback returning the heuristic result
HeuristicRow ==
    /\ pc = "row"
    /\ idx <= Len(rows)
    /\ _preprocess_text(rows[idx]) # <<>>
    /\ LET cleaned_text == _preprocess_text(rows[idx])
           result       == _simple_extraction(cleaned_text)
       IN  /\ ~needs_llm(result)
           /\ h' = StartLog("heuristic")
           /\ StoreRow(cleaned_text, result)
    /\ UNCHANGED <<rows, attempt, llm_calls, llm_errors, llm_fallbacks>>
    /\ UNCHANGED <<call, ret>>

\* lines 207-212 and 163-166: the heuristic result is too basic, the retry loop starts
Escalate ==
    /\ pc = "row"
    /\ idx <= Len(rows)
    /\ _preprocess_text(rows[idx]) # <<>>
    /\ needs_llm(_simple_extraction(_preprocess_text(rows[idx])))
    /\ pc' = "llm"
    /\ attempt' = 0
    /\ h' = StartLog("escalated")
    /\ UNCHANGED <<rows, idx, answer_list, llm_calls, llm_errors, llm_fallbacks>>
    /\ UNCHANGED <<call, ret>>

(***************************************************************************)
(* _call_llm_for_extraction: one attempt of the retry loop.                *)
(***************************************************************************)
\* a variant of connection_delay keyed to the 0-based attempt index
connection_delay_zero_based(n) == retry_delay * n

\* line 190
connection_delay(n) == retry_delay * (n + 1)

\* line 196
other_delay(n) == retry_delay

\* a variant of may_retry that allows one attempt more
may_retry_once_more(n) == n < max_retries

\* lines 189, 195
may_retry(n) == n < max_retries - 1

\* line 182
count_call(n) == n + 1

\* a variant of count_error that counts one exhausted call as two
count_error_twice(n) == n + 2

\* line 200
count_error(n) == n + 1

\* a variant of count_fallback that counts one fallback as two
count_fallback_twice(n) == n + 2

\* a variant of count_fallback that leaves the counter alone
count_fallback_skipped(n) == n

\* line 218
count_fallback(n) == n + 1

\* lines 187-201 and 216-219: the attempt failed; calls is the value of llm_calls
AttemptFailed(kind, delay, calls) ==
    IF may_retry(attempt)
    THEN /\ attempt' = attempt + 1
         /\ h' = [h EXCEPT !.outcomes = Append(@, kind), !.sleeps = Append(@, delay)]
         /\ llm_calls' = calls
         /\ UNCHANGED <<rows, idx, pc, answer_list, llm_errors, llm_fallbacks>>
    ELSE LET cleaned_text == _preprocess_text(rows[idx])
         IN  /\ llm_errors' = count_error(llm_errors)
             /\ llm_fallbacks' = count_fallback(llm_fallbacks)
             /\ llm_calls' = calls
             /\ h' = [h EXCEPT !.outcomes = Append(@, kind), !.path = "fallback"]
             /\ StoreRow(cleaned_text, _create_fallback_info(cleaned_text))
             /\ UNCHANGED <<rows, attempt>>

\* chat() raises ConnectionError
ChatConnectionError ==
    /\ pc = "llm"
    /\ AttemptFailed("connection", connection_delay(attempt), llm_calls)
    /\ UNCHANGED <<call, ret>>

\* chat() raises another exception, or returns no response or no message
ChatOtherFailure ==
    /\ pc = "llm"
    /\ AttemptFailed("chat", other_delay(attempt), llm_calls)
    /\ UNCHANGED <<call, ret>>

\* chat() returns a message that _parse_llm_response rejects
ChatUnparsable ==
    /\ pc = "llm"
    /\ \E message \in Messages : ~_parse_llm_response(message).ok
    /\ AttemptFailed("parse", other_delay(attempt), count_call(llm_calls))
    /\ UNCHANGED <<call, ret>>

\* a variant of llm_result that keeps the material_type of the heuristic result
llm_result_merged(result, parsed) ==
    [parsed EXCEPT !["material_type"] = result["material_type"]]

\* line 212: result = self._call_llm_for_extraction(text) replaces the heuristic result
llm_result(result, parsed) == parsed

\* chat() returns a message that _parse_llm_response accepts
ChatSuccess ==
    /\ pc = "llm"
    /\ \E message \in Messages :
          LET parsed       == _parse_llm_response(message)
              cleaned_text == _preprocess_text(rows[idx])
              result       == _simple_extraction(cleaned_text)
          IN  /\ parsed.ok
              /\ llm_calls' = count_call(llm_calls)
              /\ h' = [h EXCEPT !.outcomes = Append(@, "success"), !.path = "llm"]
              /\ StoreRow(cleaned_text, llm_result(result, parsed.value))
    /\ UNCHANGED <<rows, attempt, llm_errors, llm_fallbacks>>
    /\ UNCHANGED <<call, ret>>

\* the row loop ends
Finish ==
    /\ pc = "row"
    /\ idx > Len(rows)
    /\ pc' = "done"
    /\ UNCHANGED <<rows, idx, attempt, answer_list, llm_calls, llm_errors, llm_fallbacks, h>>
    /\ UNCHANGED <<call, ret>>

Next ==
    \/ EmptyText
    \/ HeuristicRow
    \/ Escalate
    \/ ChatConnectionError
    \/ ChatOtherFailure
    \/ ChatUnparsable
    \/ ChatSuccess
    \/ Finish

Spec == Init /\ [][Next]_vars

(***************************************************************************)
(* One method called on its own: _preprocess_text (applied to a text, then *)
(* to its own result), _simple_extraction and                              *)
(* _create_standardized_description.                                       *)
(***************************************************************************)
Alphabet == {"a", " ", "|", "/"}

\* every text over the alphabet of at most MaxTextLen characters
NormalizeTexts == SeqsUpTo(Alphabet, MaxTextLen)

Result(text, info, ok, error) ==
    [text |-> text, info |-> info, ok |-> ok, error |-> error]

NormalizeCalls == {[fn |-> "normalize", text |-> t, info |-> EmptyDict] : t \in NormalizeTexts}

\* segments of the texts given to _simple_extraction
Segments ==
    { <<"S","c","h","ü","t","z"," ","R","i","n","g">>,
      <<"D","i","c","h","t","u","n","g">>,
      <<"F","ü","r"," ","F","i","l","t","e","r"," ","x">>,
      <<"F","Ü","R"," ","L","a","g","e","r">>,
      <<"a","b","c">>,
      <<"f","ü","r">> }

\* the segments joined by " | ", by "|" and by "//", and the same after a bare pipe
RawExtractTexts ==
    LET lists == SeqsUpTo(Segments, MaxSegments) \ {<<>>}
        seps  == {<<" ","|"," ">>, <<"|">>, <<"/","/">>}
    IN  {join(l, sep) : l \in lists, sep \in seps}
        \cup {<<"|">> \o join(l, <<" ","|"," ">>) : l \in lists}
        \cup {<<"|">>}

\* _simple_extraction is given normalized texts
ExtractCalls ==
    {[fn |-> "extract", text |-> _preprocess_text(t), info |-> EmptyDict] : t \in RawExtractTexts}

\* the records given to _create_standardized_description: a short_description
\* that is missing, null, empty, short, of 40 and of 41 characters; names
\* around the lengths where a characteristic stops fitting; no, one and two
\* characteristics
NameLengths == {0, 5, 34, 35, 36, 37, 38, 40, 45}

DescribeInfos ==
    {[product_name      |-> Str(Rep("n", n)),
      characteristics   |-> List(cs),
      material_type     |-> "other",
      unit_of_measure   |-> "ST",
      categorization    |-> "{}",
      short_description |-> sd] :
        n  \in NameLengths,
        cs \in {<<>>, << <<"1","2","3","4","5">> >>, << <<"1","2","3","4","5">>, <<"z">> >>},
        sd \in {Absent, Null, Str(<<>>), Str(<<"k","u","r","z">>),
                Str(Rep("d", 40)), Str(Rep("d", 41))}}

DescribeCalls ==
    {[fn |-> "describe", text |-> <<>>, info |-> i] : i \in DescribeInfos}

Calls == NormalizeCalls \cup ExtractCalls \cup DescribeCalls

MethodInit ==
    /\ rows = <<>>
    /\ idx = 1
    /\ pc = "method"
    /\ attempt = 0
    /\ answer_list = <<>>
    /\ llm_calls = 0
    /\ llm_errors = 0
    /\ llm_fallbacks = 0
    /\ h = NoLog
    /\ call \in Calls
    /\ ret = <<>>

main_vars == <<rows, idx, pc, attempt, answer_list, llm_calls, llm_errors, llm_fallbacks, h>>

\* cleaned = self._preprocess_text(text), and once more on the result
Normalize ==
    /\ pc = "method"
    /\ call.fn = "normalize"
    /\ Len(ret) < 2
    /\ ret' = Append(ret,
                 Result(_preprocess_text(IF ret = <<>> THEN call.text ELSE ret[Len(ret)].text),
                        EmptyDict, TRUE, ""))
    /\ UNCHANGED <<main_vars, call>>

\* result = self._simple_extraction(text)
Extract ==
    /\ pc = "method"
    /\ call.fn = "extract"
    /\ ret = <<>>
    /\ ret' = <<Result(call.text, _simple_extraction(call.text), TRUE, "")>>
    /\ UNCHANGED <<main_vars, call>>

\* final_desc = self._create_standardized_description(product_info)
Describe ==
    /\ pc = "method"
    /\ call.fn = "describe"
    /\ ret = <<>>
    /\ LET d == _create_standardized_description(call.info)
       IN  ret' = <<Result(d.desc, call.info, d.ok, d.error)>>
    /\ UNCHANGED <<main_vars, call>>

MethodNext ==
    \/ Normalize
    \/ Extract
    \/ Describe

MethodSpec == MethodInit /\ [][MethodNext]_vars

(***************************************************************************)
(* Properties.                                                             *)
(***************************************************************************)
Last(q) == q[Len(q)]

\* the row of the log has got past _extract_with_fallback
Returned == h.path \in {"heuristic", "llm", "fallback"}

\* the row of the log went to the generative service
Escalated == h.path \in {"escalated", "llm", "fallback"}

Failures == {"connection", "chat", "parse"}

\* what the pure functions of the program give for each text of the model
CleanedText == [t \in Texts |-> _preprocess_text(t)]

HeuristicInfo == [t \in Texts |-> _simple_extraction(_preprocess_text(t))]

FallbackInfo == [t \in Texts |-> _create_fallback_info(_preprocess_text(t))]

\* the normalized texts of the rows that are not skipped, in row order
RECURSIVE NonEmptyCleaned(_)
NonEmptyCleaned(rs) ==
    IF rs = <<>> THEN <<>>
    ELSE LET c == CleanedText[Head(rs)]
         IN  (IF c = <<>> THEN <<>> ELSE <<c>>) \o NonEmptyCleaned(Tail(rs))

\* C1: every record of answer_list has a final_description of at most 40
\* characters, whatever the service did on each attempt.
C1_FinalDescriptionBounded ==
    \A i \in 1..Len(answer_list) :
        Len(answer_list[i].final_description) <= max_len

\* C1 witness: the run is over and a record built from a reply whose
\* short_description is over-long carries a description cut to 40 characters.
C1_Witness ==
    /\ pc = "done"
    /\ \E i \in 1..Len(answer_list) :
          /\ answer_list[i].has_info
          /\ Len(answer_list[i].structured_info["short_description"].s) > max_len
          /\ Len(answer_list[i].final_description) = max_len

\* C2: every ProductInfo stored as structured_info has a short_description of
\* at most 40 characters, whichever path produced it.
C2_ShortDescriptionBounded ==
    \A i \in 1..Len(answer_list) :
        answer_list[i].has_info =>
            Len(answer_list[i].structured_info["short_description"].s) <= max_len

\* C3: _extract_with_fallback never fails and what it returns is usable: once
\* it has returned for a row, the final-description step on its value does not
\* raise, so the record of that row is no error record.
C3_ReturnedInfoUsable ==
    Returned => ~Last(answer_list).has_error

\* C4: the service is called for a row if and only if the heuristic result has
\* no characteristic or a one-token name; a row that is not escalated makes
\* no request, leaves the three counters alone and stores the heuristic result.
C4_EscalationRule ==
    h.path \notin {"none", "skip"} =>
        LET r         == HeuristicInfo[rows[h.row]]
            name      == r["product_name"].s
            one_token == name # <<>> /\ \A i \in 1..Len(name) : ~IsSpace(name[i])
            too_basic == r["characteristics"].items = <<>> \/ one_token
        IN  /\ Escalated <=> too_basic
            /\ (pc = "llm" \/ h.outcomes # <<>>) <=> too_basic
            /\ ~too_basic =>
                  /\ llm_calls = h.calls0
                  /\ llm_errors = h.errors0
                  /\ llm_fallbacks = h.fallbacks0
                  /\ Last(answer_list).structured_info = r

\* C4 witness: after a row that went to the service and changed the counters,
\* a row with a characteristic and a two-word name has been stored.
C4_Witness ==
    /\ h.path = "heuristic"
    /\ h.calls0 > 0
    /\ h.fallbacks0 > 0
    /\ Len(Last(answer_list).structured_info["characteristics"].items) > 0

\* C5: one call makes at most 3 requests and none after a success; k
\* connectivity failures followed by a success are k+1 requests, llm_calls
\* one higher and llm_errors unchanged.
C5_RetryUntilSuccess ==
    /\ Len(h.outcomes) <= max_retries
    /\ \A i \in 1..(Len(h.outcomes) - 1) : h.outcomes[i] # "success"
    /\ (h.outcomes # <<>> /\ Last(h.outcomes) = "success") => pc # "llm"
    /\ ( /\ h.outcomes # <<>>
         /\ Last(h.outcomes) = "success"
         /\ \A i \in 1..(Len(h.outcomes) - 1) : h.outcomes[i] = "connection" )
       => /\ llm_calls = h.calls0 + 1
          /\ llm_errors = h.errors0

\* C5 witness: two connectivity failures, then a success on the 3rd request.
C5_Witness ==
    /\ h.outcomes = <<"connection", "connection", "success">>
    /\ llm_calls = h.calls0 + 1

\* C6: when all 3 attempts of an escalation fail, llm_errors and llm_fallbacks
\* each rise by exactly 1 and the row gets the fallback builder's record for
\* its text.
C6_ExhaustedFallsBack ==
    (Len(h.outcomes) = max_retries /\ \A i \in 1..max_retries : h.outcomes[i] \in Failures)
    => /\ h.path = "fallback"
       /\ llm_errors = h.errors0 + 1
       /\ llm_fallbacks = h.fallbacks0 + 1
       /\ Last(answer_list).has_info
       /\ Last(answer_list).cleaned_text = CleanedText[rows[h.row]]
       /\ Last(answer_list).structured_info = FallbackInfo[rows[h.row]]

\* C6 witness: three failures of three kinds, and a fallback record that is
\* not the empty one.
C6_Witness ==
    /\ h.outcomes = <<"connection", "chat", "parse">>
    /\ h.path = "fallback"
    /\ Last(answer_list).structured_info["product_name"].s # <<>>

\* C7: llm_calls counts successful calls only: a call that returns raises it
\* by exactly 1, a call that ends in all-attempts-failed by 0, and no failed
\* attempt raises it.
C7_CallsCountSuccessOnly ==
    Escalated =>
        llm_calls = h.calls0 + (IF h.path = "llm" THEN 1 ELSE 0)

\* C8: a connectivity failure on attempt n < 3 is followed by a wait of
\* baseDelay * n, any other failure by a wait of baseDelay, and nothing is
\* waited after the 3rd attempt.
C8_Backoff ==
    /\ Len(h.sleeps) <= max_retries - 1
    /\ Len(h.sleeps) =
           Cardinality({n \in 1..Min(Len(h.outcomes), max_retries - 1) :
                           h.outcomes[n] \in Failures})
    /\ \A n \in 1..Len(h.sleeps) :
           h.sleeps[n] = IF h.outcomes[n] = "connection"
                         THEN retry_delay * n
                         ELSE retry_delay

\* C8 witness: three connectivity failures waited 2 and then 4 seconds.
C8_Witness ==
    /\ h.outcomes = <<"connection", "connection", "connection">>
    /\ h.sleeps = <<2, 4>>

\* C9: a row whose processing raises appends exactly one record, with
\* final_description "ERROR", the message in error and no structured_info, and
\* the loop goes on: every row not skipped has its record, and a record that is
\* no error record carries the description of its own structured_info.
C9_BatchIsolation ==
    /\ \A i \in 1..Len(answer_list) :
          LET rec == answer_list[i]
          IN  /\ rec.has_error =>
                    /\ rec.final_description = ERROR
                    /\ rec.error # ""
                    /\ ~rec.has_info
              /\ ~rec.has_error =>
                    /\ rec.has_info
                    /\ _create_standardized_description(rec.structured_info) =
                           Returns(rec.final_description)
    /\ pc # "llm" => Len(answer_list) = Len(NonEmptyCleaned(SubSeq(rows, 1, idx - 1)))
    /\ pc = "done" => idx = Len(rows) + 1

\* C9 witness: the first row failed, the second was processed normally.
C9_Witness ==
    /\ pc = "done"
    /\ Len(answer_list) = 2
    /\ answer_list[1].has_error
    /\ answer_list[2].has_info
    /\ answer_list[2].final_description # ERROR

\* C10: answer_list holds one record per row whose normalized text is not
\* empty, none for the others, in row order, and a record once appended is
\* neither changed nor removed.
C10_RowOrder ==
    /\ [](pc # "llm" =>
            [i \in 1..Len(answer_list) |-> answer_list[i].cleaned_text]
                = NonEmptyCleaned(SubSeq(rows, 1, idx - 1)))
    /\ [][ /\ Len(answer_list') >= Len(answer_list)
           /\ SubSeq(answer_list', 1, Len(answer_list)) = answer_list ]_vars

\* C10 witness: two rows with different texts gave two records in row order.
C10_Witness ==
    /\ pc = "done"
    /\ Len(answer_list) = 2
    /\ answer_list[1].cleaned_text # answer_list[2].cleaned_text
    /\ answer_list[1].cleaned_text = CleanedText[rows[1]]

\* C11: the short_description built by the heuristic extractor equals the
\* shared synthesis on (name, characteristics), that is, what the
\* reconstruction of _create_standardized_description yields for them, also
\* when exactly 3 characters of the first characteristic fit.
C11_HeuristicUsesSynthesis ==
    h.path = "heuristic" =>
        LET info == Last(answer_list).structured_info
        IN  Returns(info["short_description"].s) = fallback_construction(info)

\* the keywords of one entry of the table
KeywordsOf(type_name) ==
    LET i == CHOOSE i \in 1..Len(type_keywords) : type_keywords[i].type_name = type_name
    IN  {type_keywords[i].keywords[k] : k \in 1..Len(type_keywords[i].keywords)}

\* a keyword of the entry occurs in the lowercased text
Occurs(type_name, text) ==
    \E kw \in KeywordsOf(type_name) : contains(lower(text), kw)

\* C12: material_type is the first entry, in the order filter, electrical,
\* mechanical, seal, with a keyword occurring in the lowercased full text, and
\* "other" when no keyword of any entry occurs.
C12_FirstMatchingType ==
    (call.fn = "extract" /\ ret # <<>> /\ Parts(call.text) # <<>>) =>
        ret[1].info["material_type"] =
            IF Occurs("filter", call.text) THEN "filter"
            ELSE IF Occurs("electrical", call.text) THEN "electrical"
            ELSE IF Occurs("mechanical", call.text) THEN "mechanical"
            ELSE IF Occurs("seal", call.text) THEN "seal"
            ELSE "other"

\* C12 witness: a text with "schütz" and "ring", and no filter keyword, is
\* classified electrical.
C12_Witness ==
    /\ call.fn = "extract"
    /\ ret # <<>>
    /\ Occurs("electrical", call.text)
    /\ Occurs("mechanical", call.text)
    /\ ~Occurs("filter", call.text)
    /\ ret[1].info["material_type"] = "electrical"

\* the trimmed non-empty pipe-separated segments of a text, by one scan
TrimmedSegment(cur) == IF strip(cur) = <<>> THEN <<>> ELSE <<strip(cur)>>

RECURSIVE ScanSegments(_, _)
ScanSegments(s, cur) ==
    IF s = <<>> THEN TrimmedSegment(cur)
    ELSE IF Head(s) = "|" THEN TrimmedSegment(cur) \o ScanSegments(Tail(s), <<>>)
    ELSE ScanSegments(Tail(s), Append(cur, Head(s)))

\* a segment without its leading "für ", in any case of the letters
WithoutFuer(seg) ==
    IF /\ Len(seg) >= 4
       /\ seg[1] \in {"f", "F"}
       /\ seg[2] \in {"ü", "Ü"}
       /\ seg[3] \in {"r", "R"}
       /\ seg[4] = " "
    THEN strip(Drop(seg, 4))
    ELSE seg

\* C13: for a normalized text with a non-empty segment the heuristic
\* extractor gives the first trimmed segment without a leading "für " as
\* product_name, the other trimmed non-empty segments in order as
\* characteristics, an empty categorization and the unit "ST".
C13_NameAndCharacteristics ==
    (call.fn = "extract" /\ ret # <<>> /\ ScanSegments(call.text, <<>>) # <<>>) =>
        LET segs == ScanSegments(call.text, <<>>)
            info == ret[1].info
        IN  /\ info["product_name"] = Str(WithoutFuer(segs[1]))
            /\ info["characteristics"] = List(Tail(segs))
            /\ info["categorization"] = "{}"
            /\ info["unit_of_measure"] = "ST"

\* C13 witness: "FÜR Lager" followed by two segments gives the name "Lager"
\* and two characteristics.
C13_Witness ==
    /\ call.fn = "extract"
    /\ ret # <<>>
    /\ startswith(call.text, <<"F","Ü","R"," ">>)
    /\ ret[1].info["product_name"] = Str(<<"L","a","g","e","r">>)
    /\ Len(ret[1].info["characteristics"].items) = 2

\* C14: _preprocess_text is idempotent: applied to its own output it returns
\* that output unchanged.
C14_NormalizeIdempotent ==
    (call.fn = "normalize" /\ Len(ret) = 2) => ret[2].text = ret[1].text

\* C14 witness: a text with "//" that the first application changed has been
\* normalized a second time.
C14_Witness ==
    /\ call.fn = "normalize"
    /\ Len(ret) = 2
    /\ \E i \in 1..(Len(call.text) - 1) : call.text[i] = "/" /\ call.text[i + 1] = "/"
    /\ ret[1].text # call.text
    /\ \E i \in 1..Len(ret[1].text) : ret[1].text[i] = "|"

\* invocations of _create_fallback_info while the row of the log was in
\* _extract_with_fallback: one from _simple_extraction when the text has no
\* non-empty segment, one from the except clause when the row fell back
BuilderInvocations ==
    (IF Parts(CleanedText[rows[h.row]]) = <<>> THEN 1 ELSE 0)
        + (IF h.path = "fallback" THEN 1 ELSE 0)

C16_ProductNameNonEmpty ==
    (h.path \in {"heuristic", "fallback"} /\ Last(answer_list).has_info) =>
        LET name == Last(answer_list).structured_info["product_name"]
        IN  name.ty = "str" /\ name.s # <<>>

\* the first characteristic neither fits whole nor leaves room for 3 characters
CharacteristicDropped(name, cs) ==
    /\ cs # <<>>
    /\ Len(name) + 1 + Len(cs[1]) > max_len
    /\ max_len - Len(name) - 1 < 3

\* the reconstruction from a name and a list of characteristics, by cases
Synthesis(name, cs) ==
    LET whole == IF cs = <<>> THEN name
                 ELSE IF Len(name) + 1 + Len(cs[1]) <= max_len
                      THEN name \o <<" ">> \o cs[1]
                 ELSE IF CharacteristicDropped(name, cs) THEN name
                 ELSE name \o <<" ">> \o SubSeq(cs[1], 1, max_len - Len(name) - 1)
    IN  IF Len(whole) <= max_len THEN whole ELSE SubSeq(whole, 1, max_len)

\* the short_description of a record is present, non-empty and at most 40 long
HasValidShort(info) ==
    /\ info["short_description"].ty = "str"
    /\ info["short_description"].s # <<>>
    /\ Len(info["short_description"].s) <= max_len

\* C17 as stated: when the short_description is not used and the first
\* characteristic is dropped, the result is the name unchanged.
C17_DroppedGivesNameUnchanged ==
    (/\ call.fn = "describe"
     /\ ret # <<>>
     /\ ~HasValidShort(call.info)
     /\ CharacteristicDropped(call.info["product_name"].s, call.info["characteristics"].items))
    => ret[1].text = call.info["product_name"].s

\* C17 amended: _create_standardized_description returns the short_description
\* verbatim when it is present, non-empty and at most 40 characters long, and
\* otherwise the reconstruction from name and first characteristic cut to 40
\* characters; when the characteristic is dropped the result is the first 40
\* characters of the name, which is the name unchanged for a name of at most
\* 40 characters.
C17_ShortOrReconstruction ==
    (call.fn = "describe" /\ ret # <<>>) =>
        LET name == call.info["product_name"].s
            cs   == call.info["characteristics"].items
        IN  /\ ret[1].ok
            /\ ret[1].text = IF HasValidShort(call.info)
                             THEN call.info["short_description"].s
                             ELSE Synthesis(name, cs)
            /\ (~HasValidShort(call.info) /\ CharacteristicDropped(name, cs)) =>
                  /\ ret[1].text = Take(name, max_len)
                  /\ Len(name) <= max_len => ret[1].text = name

\* C17 witness: a record without short_description, with a name of 38
\* characters and a characteristic of 5, is described by its name.
C17_Witness ==
    /\ call.fn = "describe"
    /\ ret # <<>>
    /\ call.info["short_description"].ty = "absent"
    /\ Len(call.info["product_name"].s) = 38
    /\ call.info["characteristics"].items # <<>>
    /\ Len(call.info["characteristics"].items[1]) = 5
    /\ ret[1].text = call.info["product_name"].s

\* C18: when a row escalated and the service's reply was accepted, the
\* record that _extract_with_fallback returned is one of the objects the
\* service sends, whole: no field of the heuristic result is in it unless the
\* reply has the same, and llm_fallbacks is as it was before the row.
C18_ReplyReplacesHeuristic ==
    h.path = "llm" =>
        /\ llm_fallbacks = h.fallbacks0
        /\ llm_errors = h.errors0
        /\ Last(answer_list).has_info =>
              Last(answer_list).structured_info \in Replies \ {EmptyDict}

\* C18 witness: after a row that fell back, a row whose heuristic result has
\* another name, material_type and short_description than the reply is stored
\* with the reply's fields.
C18_Witness ==
    /\ h.path = "llm"
    /\ h.fallbacks0 = 1
    /\ llm_fallbacks = 1
    /\ Last(answer_list).has_info
    /\ Last(answer_list).structured_info = GoodReply
    /\ HeuristicInfo[rows[h.row]]["material_type"] # GoodReply["material_type"]
    /\ HeuristicInfo[rows[h.row]]["product_name"] # GoodReply["product_name"]
    /\ HeuristicInfo[rows[h.row]]["short_description"] # GoodReply["short_description"]

\* every whitespace run of a text is one space
SingleSpaces(t) ==
    \A i \in 1..Len(t) :
        IsSpace(t[i]) => /\ t[i] = " "
                         /\ i < Len(t) => ~IsSpace(t[i + 1])

\* no "//" is left in a text
NoDoubleSlash(t) ==
    \A i \in 1..(Len(t) - 1) : ~(t[i] = "/" /\ t[i + 1] = "/")

\* a text neither starts nor ends with whitespace
Trimmed(t) == t # <<>> => ~IsSpace(t[1]) /\ ~IsSpace(t[Len(t)])

\* a pipe inside a text that has a space on one side has one on the other too
PipesSpacedBothSides(t) ==
    \A i \in 2..(Len(t) - 1) :
        (t[i] = "|" /\ (t[i - 1] = " " \/ t[i + 1] = " ")) =>
            (t[i - 1] = " " /\ t[i + 1] = " ")

\* C19: the output of _preprocess_text has single spaces only, no "//", no
\* leading or trailing whitespace, and one space on each side of every pipe,
\* also of a pipe that had whitespace on one side only in the input.
C19_NormalizedShape ==
    (call.fn = "normalize" /\ ret # <<>>) =>
        /\ SingleSpaces(ret[1].text)
        /\ NoDoubleSlash(ret[1].text)
        /\ Trimmed(ret[1].text)
        /\ PipesSpacedBothSides(ret[1].text)

\* the generative path was exhausted in the row of the log
Exhausted ==
    /\ Len(h.outcomes) = max_retries
    /\ \A i \in 1..max_retries : h.outcomes[i] \in Failures

\* C20: at every row boundary llm_fallbacks equals llm_errors; in one row the
\* fallback counter rises exactly when the generative path was exhausted, each
\* of the two counters rises by at most 1, and no counter ever decreases.
C20_FallbacksEqualErrors ==
    /\ [](pc # "llm" =>
            /\ llm_fallbacks = llm_errors
            /\ llm_fallbacks = h.fallbacks0 + (IF Exhausted THEN 1 ELSE 0)
            /\ llm_errors \in {h.errors0, h.errors0 + 1}
            /\ llm_fallbacks \in {h.fallbacks0, h.fallbacks0 + 1})
    /\ [][ /\ llm_calls' >= llm_calls
           /\ llm_errors' >= llm_errors
           /\ llm_fallbacks' >= llm_fallbacks ]_vars

\* C20 witness: the batch is over, its first row exhausted the service and its
\* second row was answered, and both counters are 1.
C20_Witness ==
    /\ pc = "done"
    /\ Len(answer_list) = 2
    /\ h.path = "llm"
    /\ h.errors0 = 1
    /\ llm_errors = 1
    /\ llm_fallbacks = 1

====
